---- MODULE Spec2Model ----
(***************************************************************************)
(* Model of src/nodes/node.py: UDP discovery, ring maintenance, LCR leader  *)
(* election, heartbeat token and leader-gated chat-client admission.        *)
(* Every node is one Node object; its threads are the actions below.        *)
(***************************************************************************)
EXTENDS Integers, Sequences, FiniteSets, Bags, TLC

(* ------------------------------------------------------------------ *)
(* Program constants                                                  *)
(* ------------------------------------------------------------------ *)
HEARTBEAT_TIMEOUT == 6
PEER_STALENESS == 10
ELECTION_COOLDOWN == 2
\* a reading of time.time() when the nodes start (seconds since 1970)
Epoch == 1700000000
\* Python's None for the optional numbers (leader_id, ring_port, client_port)
None == 0
\* Python's None for the optional neighbor tuples
NoNeighbor == <<>>
LocalIp == "127.0.0.1"

(* ------------------------------------------------------------------ *)
(* Bounds of the model                                                *)
(* ------------------------------------------------------------------ *)
\* the clock runs from Epoch to Epoch + MaxTime
MaxTime == 7
\* ring lines written to accepted connections and not yet handled
MaxInFlight == 1
\* lines a chat client writes
MaxLines == 1
MaxRingLines == 2

NodeIds == {3, 5, 7, 9}
Conns == {"a", "b"}

\* OS-chosen ports of node n (bind to port 0, then getsockname)
RingPort(n) == 30000 + n
ClientPort(n) == 40000 + n

VARIABLES
    now,                  \* time.time()
    status,               \* per node: "new" (not started), "up", "down" (killed),
                          \* "env" (a running peer that is not modelled)
    known,                \* per node: id -> <<host, ring_port, client_port, last_seen>>
    neighbor,             \* per node: <<id, host, ring_port>> or NoNeighbor
    left,                 \* per node: <<id, host, ring_port>> or NoNeighbor
    leader_id,            \* per node: id or None
    last_heartbeat,       \* per node
    in_election,          \* per node
    last_election_start,  \* per node
    mpc,                  \* per node: position of the _ring_maintainer loop
    timer,                \* per node: the start-up Timer is still pending
    msgs,                 \* bag of ring lines written to a node and not yet handled
    conn,                 \* per chat connection: both ends of the socket
    clients,              \* per node: self.clients
    acceptor,             \* per node: the _client_accept_loop thread is alive
    stopped,              \* per node: the _stop event is set
    loops,                \* per node: the component loops that are still running
    ring_conn,            \* a ring connection on which a peer writes several lines
    hpc,                  \* per node: a handler that has assigned leader_id and has
                          \* not yet assigned last_heartbeat, or NoHandler
    bcast,                \* per chat connection: where its reader thread stands in
                          \* _broadcast_to_clients, taken statement by statement
    elect_log,            \* history: per node, time of the maintainer's latest election
    received,             \* history: per node, time of the latest LEADER or HEARTBEAT
                          \* line a handler took up (0: none)
    last                  \* history: the step just taken

vars == <<now, status, known, neighbor, left, leader_id, last_heartbeat, in_election,
          last_election_start, mpc, timer, msgs, conn, clients, acceptor, stopped,
          loops, ring_conn, hpc, bcast, elect_log, received, last>>

Up == {n \in NodeIds : status[n] = "up"}

(* ------------------------------------------------------------------ *)
(* Pure helpers                                                       *)
(* ------------------------------------------------------------------ *)
\* Python's 0-based tuple indexing v[i]
At(v, i) == v[i + 1]

\* sorted(ids)
RECURSIVE sorted(_)
sorted(S) ==
    IF S = {} THEN <<>>
    ELSE LET m == CHOOSE x \in S : \A y \in S : x <= y
         IN  <<m>> \o sorted(S \ {m})

\* ids.index(x), 0-based
index(ids, x) == CHOOSE i \in 0..(Len(ids) - 1) : ids[i + 1] = x

\* RightId without the step to the next index
RightIdSame(ids, i) == ids[(i % Len(ids)) + 1]
\* ids[(i + 1) % len(ids)]
RightId(ids, i) == ids[((i + 1) % Len(ids)) + 1]
\* ids[(i - 1) % len(ids)]
LeftId(ids, i) == ids[((i - 1) % Len(ids)) + 1]

\* (id, host, port) if port is not None else None
NeighborTuple(kn, id) ==
    IF At(kn[id], 1) # None THEN <<id, At(kn[id], 0), At(kn[id], 1)>> ELSE NoNeighbor

\* the condition of the staleness sweep on one entry v of the peer table
SweepCond(t, v) == t - At(v, 2) > PEER_STALENESS

\* torem = [nid for nid, v in known.items() if now - v[2] > 10 and nid != self.id]
torem(n, t) == {nid \in DOMAIN known[n] : SweepCond(t, known[n][nid]) /\ nid # n}

\* the table entry a HELLO of node m produces at time t
HelloEntry(m, t) == <<LocalIp, RingPort(m), ClientPort(m), t>>

\* ElectionGuard without the in_election test and without the cooldown
ElectionGuardOpen(n, now2) == TRUE
\* (not self.in_election) and (now2 - self.last_election_start > 2.0)
ElectionGuard(n, now2) ==
    (~in_election[n]) /\ (now2 - last_election_start[n] > ELECTION_COOLDOWN)

\* time.time() - self.last_heartbeat > HEARTBEAT_TIMEOUT
HeartbeatExpired(n) == now - last_heartbeat[n] > HEARTBEAT_TIMEOUT

Msg(to, cmd, arg) == [to |-> to, cmd |-> cmd, arg |-> arg]

\* _send_ring_message: a one-shot connection to the right neighbor nb; the line
\* is dropped when there is no neighbor or the neighbor refuses the connection
SendTo(bag, nb, cmd, arg) ==
    IF nb = NoNeighbor THEN bag
    ELSE IF status[At(nb, 0)] # "up" THEN bag
    ELSE bag (+) SetToBag({Msg(At(nb, 0), cmd, arg)})

\* the line _send_ring_message hands to the socket: <<to, cmd, arg>>, or <<>>
\* when there is no neighbor or the connection is refused
Sent(nb, cmd, arg) ==
    IF nb = NoNeighbor THEN <<>>
    ELSE IF status[At(nb, 0)] \notin {"up", "env"} THEN <<>>
    ELSE <<At(nb, 0), cmd, arg>>

\* fewer than MaxInFlight ring lines are waiting to be handled
Room == BagCardinality(msgs) < MaxInFlight

\* value of the history variable after a step no property reads
Idle == [op |-> "idle"]

\* a chat connection nobody has opened yet
FreeConn == [st |-> "free", node |-> None, cli |-> "open", srv |-> "open",
             inbox |-> <<>>, out |-> <<>>, reader |-> "none", wrote |-> 0]

(* ------------------------------------------------------------------ *)
(* Initial state: every node of Members after Node() and start()      *)
(* ------------------------------------------------------------------ *)
\* the loops start() runs in threads of their own (the client acceptor is the
\* variable acceptor)
Loops == {"sender", "listener", "ring_acceptor", "maintainer", "heartbeat"}

NoRingConn == [st |-> "none", node |-> None, lines |-> <<>>, skipped |-> FALSE]
NoHandler == [cmd |-> "none", arg |-> None]
NoBcast == [pc |-> "idle", dead |-> <<>>]

InitOf(Members, Peers) ==
    /\ now = Epoch
    /\ status = [n \in NodeIds |-> IF n \in Members THEN "up"
                                   ELSE IF n \in Peers THEN "env" ELSE "new"]
    /\ known = [n \in NodeIds |-> (n :> HelloEntry(n, Epoch))]
    /\ neighbor = [n \in NodeIds |-> NoNeighbor]
    /\ left = [n \in NodeIds |-> NoNeighbor]
    /\ leader_id = [n \in NodeIds |-> None]
    /\ last_heartbeat = [n \in NodeIds |-> 0]
    /\ in_election = [n \in NodeIds |-> FALSE]
    /\ last_election_start = [n \in NodeIds |-> 0]
    /\ mpc = [n \in NodeIds |-> "sweep"]
    /\ timer = [n \in NodeIds |-> TRUE]
    /\ msgs = EmptyBag
    /\ conn = [c \in Conns |-> FreeConn]
    /\ clients = [n \in NodeIds |-> <<>>]
    /\ acceptor = [n \in NodeIds |-> TRUE]
    /\ stopped = [n \in NodeIds |-> FALSE]
    /\ loops = [n \in NodeIds |-> Loops]
    /\ ring_conn = NoRingConn
    /\ hpc = [n \in NodeIds |-> NoHandler]
    /\ bcast = [c \in Conns |-> NoBcast]
    /\ elect_log = [n \in NodeIds |-> 0]
    /\ received = [n \in NodeIds |-> 0]
    /\ last = Idle

(* ------------------------------------------------------------------ *)
(* The clock: d seconds pass                                          *)
(* ------------------------------------------------------------------ *)
AdvanceClock(d) ==
    /\ now + d <= Epoch + MaxTime
    /\ now' = now + d
    /\ last' = Idle
    /\ UNCHANGED <<status, known, neighbor, left, leader_id, last_heartbeat,
                   in_election, last_election_start, mpc, timer, msgs, conn,
                   clients, acceptor, stopped, loops, ring_conn, hpc, bcast,
                   elect_log, received>>

(* ------------------------------------------------------------------ *)
(* stop(): the event is set; a loop that sleeps between two iterations  *)
(* finds it set at its next "while not self._stop.is_set()"            *)
(* ------------------------------------------------------------------ *)
Stop(n) ==
    /\ status[n] = "up" /\ ~stopped[n]
    /\ stopped' = [stopped EXCEPT ![n] = TRUE]
    /\ last' = Idle
    /\ UNCHANGED <<now, status, known, neighbor, left, leader_id, last_heartbeat,
                   in_election, last_election_start, mpc, timer, msgs, conn,
                   clients, acceptor, loops, ring_conn, hpc, bcast, elect_log,
                   received>>

\* loop t of n starts one more iteration
Iterates(n, t) == t \in loops[n] /\ ~stopped[n]

\* the sender, the maintainer or the heartbeat loop of n leaves its while loop
LoopExit(n, t) ==
    /\ status[n] = "up" /\ stopped[n] /\ t \in loops[n]
    /\ t \in {"sender", "maintainer", "heartbeat"}
    /\ t = "maintainer" => mpc[n] = "sweep"
    /\ loops' = [loops EXCEPT ![n] = @ \ {t}]
    /\ last' = Idle
    /\ UNCHANGED <<now, status, known, neighbor, left, leader_id, last_heartbeat,
                   in_election, last_election_start, mpc, timer, msgs, conn,
                   clients, acceptor, stopped, ring_conn, hpc, bcast, elect_log,
                   received>>

(* ------------------------------------------------------------------ *)
(* A. Discovery: one HELLO of sender m handled by the listener of n   *)
(* ------------------------------------------------------------------ *)
\* _discovery_listener tests _stop only after recvfrom() has returned: the
\* datagram received after stop() is still handled, then the loop ends
AfterRecv(n) == IF stopped[n] THEN [loops EXCEPT ![n] = @ \ {"listener"}] ELSE loops

\* self.known[nid] = (host, ring_p, client_p, time.time())
DiscoveryHello(n, m) ==
    /\ status[n] = "up" /\ status[m] \in {"up", "env"} /\ m # n
    /\ "listener" \in loops[n] /\ "sender" \in loops[m]
    /\ loops' = AfterRecv(n)
    /\ known' = [known EXCEPT ![n] =
                    [x \in DOMAIN known[n] \cup {m} |->
                        IF x = m THEN HelloEntry(m, now) ELSE known[n][x]]]
    /\ last' = Idle
    /\ UNCHANGED <<now, status, neighbor, left, leader_id, last_heartbeat,
                   in_election, last_election_start, mpc, timer, msgs, conn,
                   clients, acceptor, stopped, ring_conn, hpc, bcast, elect_log,
                   received>>

(* ------------------------------------------------------------------ *)
(* B. Ring maintainer: one tick is the sweep, then the recomputation. *)
(* The listener thread runs between the two (the table is not locked). *)
(* ------------------------------------------------------------------ *)
MaintSweep(n) ==
    /\ status[n] = "up" /\ mpc[n] = "sweep" /\ Iterates(n, "maintainer")
    /\ known' = [known EXCEPT ![n] =
                    [x \in DOMAIN known[n] \ torem(n, now) |-> known[n][x]]]
    /\ mpc' = [mpc EXCEPT ![n] = "recompute"]
    /\ last' = [op |-> "sweep", node |-> n, before |-> known[n]]
    /\ UNCHANGED <<now, status, neighbor, left, leader_id, last_heartbeat,
                   in_election, last_election_start, timer, msgs, conn, clients,
                   acceptor, stopped, loops, ring_conn, hpc, bcast, elect_log,
                   received>>

\* line 170: the test that guards the publication of the pair and the election
NeighborsChangedAlways(n, new_neighbor, new_left) == TRUE
NeighborsChanged(n, new_neighbor, new_left) ==
    new_neighbor # neighbor[n] \/ new_left # left[n]

MaintRecompute(n) ==
    /\ status[n] = "up" /\ mpc[n] = "recompute"
    /\ LET ids == sorted(DOMAIN known[n])
           i == index(ids, n)
           new_neighbor == NeighborTuple(known[n], RightId(ids, i))
           new_left == NeighborTuple(known[n], LeftId(ids, i))
           changed == NeighborsChanged(n, new_neighbor, new_left)
           wanted == changed /\ leader_id[n] = None /\ new_neighbor # NoNeighbor
           elect == wanted /\ ElectionGuard(n, now)
       IN  /\ neighbor' = [neighbor EXCEPT ![n] = new_neighbor]
           /\ left' = [left EXCEPT ![n] = new_left]
           /\ IF elect
              THEN /\ Room
                   /\ in_election' = [in_election EXCEPT ![n] = TRUE]
                   /\ last_election_start' = [last_election_start EXCEPT ![n] = now]
                   /\ msgs' = SendTo(msgs, new_neighbor, "ELECTION", n)
                   /\ elect_log' = [elect_log EXCEPT ![n] = now]
              ELSE UNCHANGED <<in_election, last_election_start, msgs, elect_log>>
           /\ last' = [op |-> "recompute", node |-> n, changed |-> changed,
                       wanted |-> wanted, elect |-> elect,
                       was_in_election |-> in_election[n],
                       sent |-> IF elect THEN Sent(new_neighbor, "ELECTION", n) ELSE <<>>,
                       prev_elect |-> elect_log[n]]
    /\ mpc' = [mpc EXCEPT ![n] = "sweep"]
    /\ UNCHANGED <<now, status, known, leader_id, last_heartbeat, timer, conn,
                   clients, acceptor, stopped, loops, ring_conn, hpc, bcast,
                   received>>

(* ------------------------------------------------------------------ *)
(* D. Election and heartbeat engine                                   *)
(* ------------------------------------------------------------------ *)
\* threading.Timer(2.0, self.start_election)
TimerElection(n) ==
    /\ status[n] = "up" /\ timer[n] /\ Room
    /\ timer' = [timer EXCEPT ![n] = FALSE]
    /\ msgs' = SendTo(msgs, neighbor[n], "ELECTION", n)
    /\ last' = Idle
    /\ UNCHANGED <<now, status, known, neighbor, left, leader_id, last_heartbeat,
                   in_election, last_election_start, mpc, conn, clients, acceptor,
                   stopped, loops, ring_conn, hpc, bcast, elect_log, received>>

ElectionEffect(n, eid, rest) ==
    /\ IF eid = n
       THEN /\ leader_id' = [leader_id EXCEPT ![n] = n]
            /\ in_election' = [in_election EXCEPT ![n] = FALSE]
            /\ msgs' = SendTo(rest, neighbor[n], "LEADER", n)
       ELSE IF eid > n
       THEN /\ msgs' = SendTo(rest, neighbor[n], "ELECTION", eid)
            /\ UNCHANGED <<leader_id, in_election>>
       ELSE /\ msgs' = SendTo(rest, neighbor[n], "ELECTION", n)
            /\ UNCHANGED <<leader_id, in_election>>
    /\ UNCHANGED <<last_heartbeat, received>>

\* line 307 and line 314: the handler passes the line on unless lid is its own id
LeaderForwardAlways(n, lid) == TRUE
LeaderForward(n, lid) == lid # n
HeartbeatForwardNever(n, lid) == FALSE
HeartbeatForward(n, lid) == lid # n

LeaderEffect(n, lid, rest) ==
    /\ leader_id' = [leader_id EXCEPT ![n] = lid]
    /\ in_election' = [in_election EXCEPT ![n] = FALSE]
    /\ last_heartbeat' = [last_heartbeat EXCEPT ![n] = now]
    /\ received' = [received EXCEPT ![n] = now]
    /\ msgs' = IF LeaderForward(n, lid)
               THEN SendTo(rest, neighbor[n], "LEADER", lid) ELSE rest

HeartbeatEffect(n, lid, rest) ==
    /\ leader_id' = [leader_id EXCEPT ![n] = lid]
    /\ last_heartbeat' = [last_heartbeat EXCEPT ![n] = now]
    /\ received' = [received EXCEPT ![n] = now]
    /\ msgs' = IF HeartbeatForward(n, lid)
               THEN SendTo(rest, neighbor[n], "HEARTBEAT", lid) ELSE rest
    /\ UNCHANGED in_election

\* _ring_accept_loop and _client_accept_loop test _stop only after accept() has
\* returned: the connection accepted after stop() is still served, then loop t ends
AfterAccept(n, t) == IF stopped[n] THEN [loops EXCEPT ![n] = @ \ {t}] ELSE loops

\* _ring_accept_loop accepts the one-shot connection of a line written by
\* _send_ring_message, and _handle_ring_conn runs the handler of the line
OnElectionMsg(n, eid) ==
    /\ status[n] = "up" /\ "ring_acceptor" \in loops[n]
    /\ BagIn(Msg(n, "ELECTION", eid), msgs)
    /\ ElectionEffect(n, eid, msgs (-) SetToBag({Msg(n, "ELECTION", eid)}))
    /\ loops' = AfterAccept(n, "ring_acceptor")
    /\ last' = [op |-> "on_election", node |-> n, arg |-> eid]
    /\ UNCHANGED <<now, status, known, neighbor, left, last_election_start, mpc,
                   timer, conn, clients, acceptor, stopped, ring_conn, hpc, bcast,
                   elect_log>>

OnLeaderMsg(n, lid) ==
    /\ status[n] = "up" /\ "ring_acceptor" \in loops[n]
    /\ BagIn(Msg(n, "LEADER", lid), msgs)
    /\ LeaderEffect(n, lid, msgs (-) SetToBag({Msg(n, "LEADER", lid)}))
    /\ loops' = AfterAccept(n, "ring_acceptor")
    /\ last' = [op |-> "on_leader", node |-> n, arg |-> lid]
    /\ UNCHANGED <<now, status, known, neighbor, left, last_election_start, mpc,
                   timer, conn, clients, acceptor, stopped, ring_conn, hpc, bcast,
                   elect_log>>

OnHeartbeat(n, lid) ==
    /\ status[n] = "up" /\ "ring_acceptor" \in loops[n]
    /\ BagIn(Msg(n, "HEARTBEAT", lid), msgs)
    /\ HeartbeatEffect(n, lid, msgs (-) SetToBag({Msg(n, "HEARTBEAT", lid)}))
    /\ loops' = AfterAccept(n, "ring_acceptor")
    /\ last' = [op |-> "on_heartbeat", node |-> n, arg |-> lid,
                leader_was |-> leader_id[n],
                sent |-> IF HeartbeatForward(n, lid)
                         THEN Sent(neighbor[n], "HEARTBEAT", lid) ELSE <<>>]
    /\ UNCHANGED <<now, status, known, neighbor, left, last_election_start, mpc,
                   timer, conn, clients, acceptor, stopped, ring_conn, hpc, bcast,
                   elect_log>>

\* one iteration of _heartbeat_loop: the leader emits a heartbeat
HeartbeatEmit(n) ==
    /\ status[n] = "up" /\ leader_id[n] = n /\ Iterates(n, "heartbeat")
    /\ Room
    /\ msgs' = SendTo(msgs, neighbor[n], "HEARTBEAT", n)
    /\ last' = Idle
    /\ UNCHANGED <<now, status, known, neighbor, left, leader_id, last_heartbeat,
                   in_election, last_election_start, mpc, timer, conn, clients,
                   acceptor, stopped, loops, ring_conn, hpc, bcast, elect_log,
                   received>>

\* one iteration of _heartbeat_loop: a follower finds the leader timed out
HeartbeatTimeout(n) ==
    /\ status[n] = "up" /\ leader_id[n] # n /\ Iterates(n, "heartbeat")
    /\ leader_id[n] # None /\ HeartbeatExpired(n)
    /\ Room
    /\ leader_id' = [leader_id EXCEPT ![n] = None]
    /\ msgs' = SendTo(msgs, neighbor[n], "ELECTION", n)
    /\ last' = [op |-> "heartbeat_timeout", node |-> n, arg |-> leader_id[n]]
    /\ UNCHANGED <<now, status, known, neighbor, left, last_heartbeat, in_election,
                   last_election_start, mpc, timer, conn, clients, acceptor,
                   stopped, loops, ring_conn, hpc, bcast, elect_log, received>>

(* ------------------------------------------------------------------ *)
(* The environment of a node whose peers are not modelled             *)
(* ------------------------------------------------------------------ *)
\* a peer (or any TCP client) connects to the ring port of n and writes a line
RingInput(n, cmd, arg) ==
    /\ status[n] = "up" /\ Room
    /\ msgs' = msgs (+) SetToBag({Msg(n, cmd, arg)})
    /\ last' = Idle
    /\ UNCHANGED <<now, status, known, neighbor, left, leader_id, last_heartbeat,
                   in_election, last_election_start, mpc, timer, conn, clients,
                   acceptor, stopped, loops, ring_conn, hpc, bcast, elect_log,
                   received>>

(* ------------------------------------------------------------------ *)
(* C. Client admission and broadcast                                  *)
(* ------------------------------------------------------------------ *)
\* the bytes of a line, as the pieces the code joins and strips
Welcome == <<"WELCOME", "\n">>
NotLeader == <<"NOT_LEADER", "\n">>
\* the lines a chat client writes: "hi\n" and "\n"
ClientLines == {<<"hi", "\n">>, <<"\n">>}

\* line.rstrip('\n')
RECURSIVE rstrip(_)
rstrip(line) ==
    IF line # <<>> /\ line[Len(line)] = "\n"
    THEN rstrip(SubSeq(line, 1, Len(line) - 1))
    ELSE line

TextNoId(n, msg) == msg
\* f"[{self.id}] {msg}"
Text(n, msg) == <<"[", ToString(n), "] ">> \o msg

\* c.sendall(data) returns: the socket is open here and the peer has not reset it
SendOk(k) == k.srv = "open" /\ k.cli # "rst"
\* the connection after a sendall that returned: an open peer receives the bytes,
\* a peer that has closed answers them with a reset
AfterSend(k, data) ==
    IF k.cli = "open" THEN [k EXCEPT !.inbox = Append(@, data)]
    ELSE [k EXCEPT !.cli = "rst"]

RECURSIVE without(_, _)
without(s, D) ==
    IF s = <<>> THEN <<>>
    ELSE IF Head(s) \in D THEN without(Tail(s), D)
    ELSE <<Head(s)>> \o without(Tail(s), D)
Range(s) == {s[i] : i \in DOMAIN s}

\* _broadcast_to_clients(text) of node n: the connections and self.clients after it
dead(n) == {c \in Range(clients[n]) : ~SendOk(conn[c])}
BroadcastConn(n, text) ==
    [c \in Conns |->
        IF c \notin Range(clients[n]) THEN conn[c]
        ELSE IF c \in dead(n) THEN [conn[c] EXCEPT !.srv = "closed"]
        ELSE AfterSend(conn[c], text \o <<"\n">>)]
BroadcastClients(n) == without(clients[n], dead(n))

\* a client connects to the client port of node n: the connection waits in the
\* listen queue
ClientConnect(c, n) ==
    /\ conn[c].st = "free" /\ status[n] = "up"
    /\ conn' = [conn EXCEPT ![c].st = "queued", ![c].node = n]
    /\ last' = Idle
    /\ UNCHANGED <<now, status, known, neighbor, left, leader_id, last_heartbeat,
                   in_election, last_election_start, mpc, timer, msgs, clients,
                   acceptor, stopped, loops, ring_conn, hpc, bcast, elect_log,
                   received>>

\* a client writes a line
ClientSend(c, line) ==
    /\ conn[c].st \in {"queued", "open"} /\ conn[c].cli = "open"
    /\ conn[c].wrote < MaxLines
    /\ conn' = [conn EXCEPT ![c].out = Append(@, line), ![c].wrote = @ + 1]
    /\ last' = Idle
    /\ UNCHANGED <<now, status, known, neighbor, left, leader_id, last_heartbeat,
                   in_election, last_election_start, mpc, timer, msgs, clients,
                   acceptor, stopped, loops, ring_conn, hpc, bcast, elect_log,
                   received>>

\* a client closes its socket ("fin"), or its process is killed with the
\* connection reset ("rst")
ClientClose(c, how) ==
    /\ conn[c].st # "free" /\ conn[c].cli = "open"
    /\ conn' = [conn EXCEPT ![c].cli = how,
                            ![c].out = IF how = "rst" THEN <<>> ELSE @]
    /\ last' = Idle
    /\ UNCHANGED <<now, status, known, neighbor, left, leader_id, last_heartbeat,
                   in_election, last_election_start, mpc, timer, msgs, clients,
                   acceptor, stopped, loops, ring_conn, hpc, bcast, elect_log,
                   received>>

\* one iteration of _client_accept_loop
ClientAccept(n, c) ==
    /\ status[n] = "up" /\ acceptor[n]
    /\ conn[c].st = "queued" /\ conn[c].node = n
    /\ IF leader_id[n] = n
       THEN /\ conn' = [conn EXCEPT ![c] =
                    [(IF SendOk(conn[c]) THEN AfterSend(conn[c], Welcome) ELSE conn[c])
                        EXCEPT !.st = "open", !.reader = "running"]]
            /\ clients' = [clients EXCEPT ![n] = Append(@, c)]
            /\ acceptor' = [acceptor EXCEPT ![n] = ~stopped[n]]
       ELSE IF SendOk(conn[c])
       THEN /\ conn' = [conn EXCEPT ![c] =
                    [AfterSend(conn[c], NotLeader)
                        EXCEPT !.st = "rejected", !.srv = "closed"]]
            /\ acceptor' = [acceptor EXCEPT ![n] = ~stopped[n]]
            /\ UNCHANGED clients
       ELSE \* sendall raises: the exception ends the thread before conn.close()
            /\ conn' = [conn EXCEPT ![c].st = "stuck"]
            /\ acceptor' = [acceptor EXCEPT ![n] = FALSE]
            /\ UNCHANGED clients
    /\ last' = [op |-> "accept", node |-> n, conn |-> c, leader |-> leader_id[n] = n,
                before |-> conn[c], members |-> clients[n]]
    /\ UNCHANGED <<now, status, known, neighbor, left, leader_id, last_heartbeat,
                   in_election, last_election_start, mpc, timer, msgs, stopped,
                   loops, ring_conn, hpc, bcast, elect_log, received>>

\* _handle_client reads one line of connection c
ReadLine(n, c) ==
    /\ status[n] = "up" /\ conn[c].node = n
    /\ conn[c].reader = "running" /\ conn[c].srv = "open" /\ conn[c].out # <<>>
    /\ bcast[c] = NoBcast
    /\ LET msg == rstrip(Head(conn[c].out))
           read == [conn EXCEPT ![c].out = Tail(@)]
       IN  /\ IF msg # <<>>
              THEN /\ conn' = [d \in Conns |->
                                 [BroadcastConn(n, Text(n, msg))[d]
                                     EXCEPT !.out = read[d].out]]
                   /\ clients' = [clients EXCEPT ![n] = BroadcastClients(n)]
              ELSE /\ conn' = read
                   /\ UNCHANGED clients
           /\ last' = [op |-> "read_line", node |-> n, conn |-> c, line |-> Head(conn[c].out),
                       before |-> conn, members |-> clients[n]]
    /\ UNCHANGED <<now, status, known, neighbor, left, leader_id, last_heartbeat,
                   in_election, last_election_start, mpc, timer, msgs, acceptor,
                   stopped, loops, ring_conn, hpc, bcast, elect_log, received>>

\* _handle_client finds the end of the stream: "with conn" closes the socket
ReaderEOF(n, c) ==
    /\ status[n] = "up" /\ conn[c].node = n /\ conn[c].reader = "running"
    /\ bcast[c] = NoBcast
    /\ \/ conn[c].srv = "closed"
       \/ conn[c].out = <<>> /\ conn[c].cli # "open"
    /\ conn' = [conn EXCEPT ![c].reader = "done", ![c].srv = "closed"]
    /\ last' = Idle
    /\ UNCHANGED <<now, status, known, neighbor, left, leader_id, last_heartbeat,
                   in_election, last_election_start, mpc, timer, msgs, clients,
                   acceptor, stopped, loops, ring_conn, hpc, bcast, elect_log,
                   received>>


(* ------------------------------------------------------------------ *)
(* F. Input of peers: datagrams on the discovery socket and lines on   *)
(* a ring connection that stays open                                   *)
(* ------------------------------------------------------------------ *)
\* one whitespace-separated field of a datagram: its text, whether int() accepts
\* it, and the value int() returns
Str(t) == [txt |-> t, int |-> FALSE, val |-> 0]
Num(v) == [txt |-> ToString(v), int |-> TRUE, val |-> v]

\* data.decode().strip().split() of the datagram _discovery_sender of m sends
HelloOf(m) ==
    <<Str("HELLO"), Num(m), Str(LocalIp), Num(RingPort(m)), Num(ClientPort(m))>>

\* datagrams that arrive on the multicast port: the HELLO of node 7, one with
\* another keyword, one with three fields, one whose id and one whose client
\* port is not an integer
Datagrams ==
    {HelloOf(7),
     <<Str("HOLA"), Num(7), Str(LocalIp), Num(RingPort(7)), Num(ClientPort(7))>>,
     <<Str("HELLO"), Num(7), Str(LocalIp)>>,
     <<Str("HELLO"), Str("x"), Str(LocalIp), Num(RingPort(7)), Num(ClientPort(7))>>,
     <<Str("HELLO"), Num(7), Str(LocalIp), Num(RingPort(7)), Str("p")>>}

\* lines 135-143: "record" the sender, "drop" the datagram, or "raise"
\* ValueError out of int(), which no try block of the listener encloses
DatagramOutcome(s) ==
    IF Len(s) >= 5 /\ At(s, 0).txt = "HELLO"
    THEN IF At(s, 1).int /\ At(s, 3).int /\ At(s, 4).int THEN "record" ELSE "raise"
    ELSE "drop"

\* one datagram handled by _discovery_listener of n
DiscoveryDatagram(n, s) ==
    /\ status[n] = "up" /\ "listener" \in loops[n]
    /\ LET out == DatagramOutcome(s)
       IN  /\ known' = IF out = "record"
                       THEN [known EXCEPT ![n] =
                                [x \in DOMAIN known[n] \cup {At(s, 1).val} |->
                                    IF x = At(s, 1).val
                                    THEN <<At(s, 2).txt, At(s, 3).val, At(s, 4).val, now>>
                                    ELSE known[n][x]]]
                       ELSE known
           /\ loops' = IF out = "raise"
                       THEN [loops EXCEPT ![n] = @ \ {"listener"}]
                       ELSE AfterRecv(n)
    /\ last' = [op |-> "datagram", node |-> n, data |-> s]
    /\ UNCHANGED <<now, status, neighbor, left, leader_id, last_heartbeat,
                   in_election, last_election_start, mpc, timer, msgs, conn,
                   clients, acceptor, stopped, ring_conn, hpc, bcast, elect_log,
                   received>>

\* line.strip().split() of a ring line: the command and its integer arguments
\* (cmd = "" is the empty line)
RingLines ==
    {[cmd |-> "FOO", args |-> <<1>>],
     [cmd |-> "ELECTION", args |-> <<5>>],
     [cmd |-> "ELECTION", args |-> <<7>>],
     [cmd |-> "LEADER", args |-> <<7>>],
     [cmd |-> "HEARTBEAT", args |-> <<7>>],
     [cmd |-> "ELECTION", args |-> <<>>]}

\* lines 210-225: "skip" an empty line or a line of another command, "handle"
\* a command, or "raise" IndexError out of parts[1]
LineOutcomeStrict(line) ==
    IF line.cmd \in {"ELECTION", "LEADER", "HEARTBEAT"} /\ Len(line.args) >= 1
    THEN "handle" ELSE "raise"
LineOutcome(line) ==
    IF line.cmd \in {"ELECTION", "LEADER", "HEARTBEAT"}
    THEN IF Len(line.args) >= 1 THEN "handle" ELSE "raise"
    ELSE "skip"

\* what the handler of a line hands to _send_ring_message
SentBy(n, line) ==
    LET a == At(line.args, 0)
    IN  IF line.cmd = "ELECTION"
        THEN Sent(neighbor[n], IF a = n THEN "LEADER" ELSE "ELECTION",
                  IF a > n THEN a ELSE n)
        ELSE IF line.cmd = "LEADER"
        THEN IF LeaderForward(n, a) THEN Sent(neighbor[n], "LEADER", a) ELSE <<>>
        ELSE IF HeartbeatForward(n, a) THEN Sent(neighbor[n], "HEARTBEAT", a) ELSE <<>>

\* a peer connects to the ring port of n; _ring_accept_loop starts
\* _handle_ring_conn on the connection
RingConnOpen(n) ==
    /\ status[n] = "up" /\ "ring_acceptor" \in loops[n]
    /\ ring_conn.st = "none"
    /\ ring_conn' = [st |-> "open", node |-> n, lines |-> <<>>, skipped |-> FALSE]
    /\ loops' = AfterAccept(n, "ring_acceptor")
    /\ last' = Idle
    /\ UNCHANGED <<now, status, known, neighbor, left, leader_id, last_heartbeat,
                   in_election, last_election_start, mpc, timer, msgs, conn,
                   clients, acceptor, stopped, hpc, bcast, elect_log, received>>

\* the peer writes one more line on the connection
RingConnWrite(line) ==
    /\ ring_conn.st = "open" /\ Len(ring_conn.lines) < MaxRingLines
    /\ ring_conn' = [ring_conn EXCEPT !.lines = Append(@, line)]
    /\ last' = Idle
    /\ UNCHANGED <<now, status, known, neighbor, left, leader_id, last_heartbeat,
                   in_election, last_election_start, mpc, timer, msgs, conn,
                   clients, acceptor, stopped, loops, hpc, bcast, elect_log,
                   received>>

\* one iteration of "for line in f" of _handle_ring_conn
RingConnRead(n) ==
    /\ status[n] = "up" /\ ring_conn.st = "open" /\ ring_conn.node = n
    /\ ring_conn.lines # <<>>
    /\ LET line == Head(ring_conn.lines)
           out == LineOutcome(line)
       IN  /\ IF out = "handle"
              THEN /\ Room
                   /\ IF line.cmd = "ELECTION"
                      THEN ElectionEffect(n, At(line.args, 0), msgs)
                      ELSE IF line.cmd = "LEADER"
                      THEN LeaderEffect(n, At(line.args, 0), msgs)
                      ELSE HeartbeatEffect(n, At(line.args, 0), msgs)
              ELSE UNCHANGED <<leader_id, in_election, last_heartbeat, received, msgs>>
           /\ ring_conn' = IF out = "raise"
                           THEN [ring_conn EXCEPT !.st = "closed", !.lines = <<>>]
                           ELSE [ring_conn EXCEPT !.lines = Tail(@),
                                                  !.skipped = @ \/ out = "skip"]
           /\ last' = [op |-> "ring_line", node |-> n, line |-> line,
                       after_skip |-> ring_conn.skipped,
                       sent |-> IF out = "handle" THEN SentBy(n, line) ELSE <<>>]
    /\ UNCHANGED <<now, status, known, neighbor, left, last_election_start, mpc,
                   timer, conn, clients, acceptor, stopped, loops, hpc, bcast,
                   elect_log>>

(* ------------------------------------------------------------------ *)
(* G. The handlers of LEADER and HEARTBEAT statement by statement: the  *)
(* node takes no lock, so the heartbeat loop and the maintainer run     *)
(* between the assignment of leader_id and that of last_heartbeat.      *)
(* OnLeaderMsg and OnHeartbeat are the two steps run without a break.   *)
(* ------------------------------------------------------------------ *)
\* line 303 / line 311: self.leader_id = lid
ReceiptBegin(n, cmd, lid) ==
    /\ status[n] = "up" /\ "ring_acceptor" \in loops[n]
    /\ cmd \in {"LEADER", "HEARTBEAT"} /\ BagIn(Msg(n, cmd, lid), msgs)
    /\ hpc[n] = NoHandler
    /\ leader_id' = [leader_id EXCEPT ![n] = lid]
    /\ msgs' = msgs (-) SetToBag({Msg(n, cmd, lid)})
    /\ hpc' = [hpc EXCEPT ![n] = [cmd |-> cmd, arg |-> lid]]
    /\ received' = [received EXCEPT ![n] = now]
    /\ loops' = AfterAccept(n, "ring_acceptor")
    /\ last' = [op |-> "receipt_begin", node |-> n, arg |-> lid]
    /\ UNCHANGED <<now, status, known, neighbor, left, last_heartbeat, in_election,
                   last_election_start, mpc, timer, conn, clients, acceptor,
                   stopped, ring_conn, bcast, elect_log>>

\* lines 304-308 / lines 312-315: the rest of the handler
ReceiptEnd(n) ==
    /\ status[n] = "up" /\ hpc[n] # NoHandler
    /\ LET cmd == hpc[n].cmd
           lid == hpc[n].arg
       IN  /\ in_election' = IF cmd = "LEADER"
                             THEN [in_election EXCEPT ![n] = FALSE] ELSE in_election
           /\ last_heartbeat' = [last_heartbeat EXCEPT ![n] = now]
           /\ msgs' = IF (cmd = "LEADER" /\ LeaderForward(n, lid))
                          \/ (cmd = "HEARTBEAT" /\ HeartbeatForward(n, lid))
                      THEN SendTo(msgs, neighbor[n], cmd, lid) ELSE msgs
    /\ hpc' = [hpc EXCEPT ![n] = NoHandler]
    /\ last' = [op |-> "receipt_end", node |-> n, arg |-> hpc[n].arg]
    /\ UNCHANGED <<now, status, known, neighbor, left, leader_id,
                   last_election_start, mpc, timer, conn, clients, acceptor,
                   stopped, loops, ring_conn, bcast, elect_log, received>>

(* ------------------------------------------------------------------ *)
(* H. _broadcast_to_clients statement by statement: every reader      *)
(* thread runs it on self.clients without a lock. ReadLine is the     *)
(* steps below run without a break.                                   *)
(* ------------------------------------------------------------------ *)
\* the elements of s that are in D, in the order of s
RECURSIVE only(_, _)
only(s, D) ==
    IF s = <<>> THEN <<>>
    ELSE IF Head(s) \in D THEN <<Head(s)>> \o only(Tail(s), D)
    ELSE only(Tail(s), D)

\* self.clients.remove(d): the first occurrence of d goes
RECURSIVE remove(_, _)
remove(s, d) ==
    IF s = <<>> THEN <<>>
    ELSE IF Head(s) = d THEN Tail(s)
    ELSE <<Head(s)>> \o remove(Tail(s), d)

\* the reader after the first element of its dead list is dealt with
NextDead(b) ==
    IF Tail(b.dead) = <<>> THEN NoBcast ELSE [pc |-> "test", dead |-> Tail(b.dead)]

\* lines 250-262: the reader of c reads a line and sends it to list(self.clients);
\* the connections whose sendall raised are its dead list
BcastSend(n, c) ==
    /\ status[n] = "up" /\ conn[c].node = n
    /\ conn[c].reader = "running" /\ conn[c].srv = "open" /\ conn[c].out # <<>>
    /\ bcast[c] = NoBcast
    /\ LET msg == rstrip(Head(conn[c].out))
           read == [conn EXCEPT ![c].out = Tail(@)]
       IN  IF msg # <<>>
           THEN /\ conn' = [d \in Conns |->
                              [(IF d \in Range(clients[n]) /\ d \notin dead(n)
                                THEN AfterSend(conn[d], Text(n, msg) \o <<"\n">>)
                                ELSE conn[d])
                                  EXCEPT !.out = read[d].out]]
                /\ bcast' = [bcast EXCEPT ![c] =
                                IF dead(n) = {} THEN NoBcast
                                ELSE [pc |-> "test", dead |-> only(clients[n], dead(n))]]
           ELSE /\ conn' = read
                /\ UNCHANGED bcast
    /\ last' = [op |-> "bcast_send", node |-> n, conn |-> c]
    /\ UNCHANGED <<now, status, known, neighbor, left, leader_id, last_heartbeat,
                   in_election, last_election_start, mpc, timer, msgs, clients,
                   acceptor, stopped, loops, ring_conn, hpc, elect_log, received>>

\* lines 263-268: d.close(), then the test "d in self.clients"
BcastTest(n, c) ==
    /\ status[n] = "up" /\ conn[c].node = n /\ bcast[c].pc = "test"
    /\ LET d == Head(bcast[c].dead)
       IN  /\ conn' = [conn EXCEPT ![d].srv = "closed"]
           /\ bcast' = [bcast EXCEPT ![c] =
                            IF d \in Range(clients[n])
                            THEN [pc |-> "remove", dead |-> bcast[c].dead]
                            ELSE NextDead(bcast[c])]
    /\ last' = [op |-> "bcast_test", node |-> n, conn |-> c]
    /\ UNCHANGED <<now, status, known, neighbor, left, leader_id, last_heartbeat,
                   in_election, last_election_start, mpc, timer, msgs, clients,
                   acceptor, stopped, loops, ring_conn, hpc, elect_log, received>>

\* line 269: self.clients.remove(d); ValueError when another thread has removed
\* d since the test: nothing catches it, the reader thread of c ends and
\* "with conn" of _handle_client closes c
BcastRemove(n, c) ==
    /\ status[n] = "up" /\ conn[c].node = n /\ bcast[c].pc = "remove"
    /\ LET d == Head(bcast[c].dead)
       IN  IF d \in Range(clients[n])
           THEN /\ clients' = [clients EXCEPT ![n] = remove(@, d)]
                /\ bcast' = [bcast EXCEPT ![c] = NextDead(bcast[c])]
                /\ UNCHANGED conn
                /\ last' = [op |-> "bcast_remove", node |-> n, conn |-> c,
                            target |-> d, raised |-> FALSE]
           ELSE /\ conn' = [conn EXCEPT ![c].reader = "crashed", ![c].srv = "closed"]
                /\ bcast' = [bcast EXCEPT ![c] = NoBcast]
                /\ UNCHANGED clients
                /\ last' = [op |-> "bcast_remove", node |-> n, conn |-> c,
                            target |-> d, raised |-> TRUE]
    /\ UNCHANGED <<now, status, known, neighbor, left, leader_id, last_heartbeat,
                   in_election, last_election_start, mpc, timer, msgs, acceptor,
                   stopped, loops, ring_conn, hpc, elect_log, received>>
(* ------------------------------------------------------------------ *)
(* Specifications                                                     *)
(* ------------------------------------------------------------------ *)
Cmds == {"ELECTION", "LEADER", "HEARTBEAT"}

\* the threads of the nodes of N, but for the start-up timer and the timeout
\* branch of _heartbeat_loop
Engine(N) ==
    \/ \E n \in N : MaintSweep(n)
    \/ \E n \in N : MaintRecompute(n)
    \/ \E n \in N, eid \in NodeIds : OnElectionMsg(n, eid)
    \/ \E n \in N, lid \in NodeIds : OnLeaderMsg(n, lid)
    \/ \E n \in N, lid \in NodeIds : OnHeartbeat(n, lid)
    \/ \E n \in N : HeartbeatEmit(n)
\* the threads of the nodes of N
Node(N) ==
    \/ Engine(N)
    \/ \E n \in N : TimerElection(n)
    \/ \E n \in N : HeartbeatTimeout(n)

\* Spec: node 5 with all its threads; its peers 3 and 7 are its environment:
\* their HELLO datagrams arrive, they accept the lines node 5 sends, and lines
\* with their ids arrive at the ring port of node 5.
Init == InitOf({5}, {3, 7})
Next ==
    \/ AdvanceClock(HEARTBEAT_TIMEOUT + 1)
    \/ \E m \in {3, 7} : DiscoveryHello(5, m)
    \/ Node({5})
    \/ \E cmd \in Cmds, arg \in {3, 7} : RingInput(5, cmd, arg)
Spec == Init /\ [][Next]_vars

\* a chat client
Client ==
    \/ \E c \in Conns, n \in NodeIds : ClientConnect(c, n)
    \/ \E c \in Conns, line \in ClientLines : ClientSend(c, line)
    \/ \E c \in Conns, how \in {"fin", "rst"} : ClientClose(c, how)
\* the client threads of the nodes of N
Chat(N) ==
    \/ \E n \in N, c \in Conns : ClientAccept(n, c)
    \/ \E n \in N, c \in Conns : ReadLine(n, c)
    \/ \E n \in N, c \in Conns : ReaderEOF(n, c)

\* SpecChat: node 5 on its own, from construction, with its chat clients. Its
\* table holds only itself, so every ring line it writes goes to its own ring
\* port; its leader_id is None until its own election returns, and 5 from then on.
\* The start-up timer and the heartbeat loop, which give leader_id no other
\* value here, are left out.
NextChat ==
    \/ MaintSweep(5)
    \/ MaintRecompute(5)
    \/ \E arg \in NodeIds : OnElectionMsg(5, arg)
    \/ \E arg \in NodeIds : OnLeaderMsg(5, arg)
    \/ Client
    \/ Chat({5})
SpecChat == InitOf({5}, {}) /\ [][NextChat]_vars

\* a HELLO of m handled by the listener of n while the maintainer of n sleeps
\* (the maintainer sleeps 1 s between two ticks, and a tick takes microseconds)
HelloAsleep(n, m) == mpc[n] = "sweep" /\ DiscoveryHello(n, m)

\* what the scheduling of the threads of the nodes of N guarantees: every loop
\* keeps iterating, every line written to a listening ring port is handled,
\* and the HELLO datagrams of a running node keep arriving. A step that writes
\* a ring line waits here for room among the lines in flight, which no thread of
\* the program does: the fairness of those steps is strong.
Fair(N) ==
    /\ \A n \in N : WF_vars(MaintSweep(n)) /\ SF_vars(MaintRecompute(n))
    /\ \A n \in N : WF_vars(\E eid \in NodeIds : OnElectionMsg(n, eid))
    /\ \A n \in N : WF_vars(\E lid \in NodeIds : OnLeaderMsg(n, lid))
    /\ \A n \in N : WF_vars(\E lid \in NodeIds : OnHeartbeat(n, lid))
    /\ \A n \in N : SF_vars(HeartbeatEmit(n))
    /\ \A n \in N, m \in N : SF_vars(HelloAsleep(n, m))
\* time passes, and the heartbeat loop keeps checking the age of the last heartbeat
FairTimeout(N) ==
    /\ WF_vars(AdvanceClock(HEARTBEAT_TIMEOUT + 1))
    /\ \A n \in N : SF_vars(HeartbeatTimeout(n))

\* SpecRing: nodes 5 and 7, from construction, over the first seconds (the clock
\* stands still, so no heartbeat times out)
NextRing ==
    \/ \E n \in {5, 7}, m \in {5, 7} : DiscoveryHello(n, m)
    \/ Engine({5, 7})
    \/ \E n \in {5, 7} : TimerElection(n)
SpecRing == InitOf({5, 7}, {}) /\ [][NextRing]_vars

\* SpecStart: nodes 5 and 7, from construction, with every HELLO arriving
\* while the maintainer of the receiver sleeps
NextStart ==
    \/ \E n \in {5, 7}, m \in {5, 7} : HelloAsleep(n, m)
    \/ Engine({5, 7})
    \/ \E n \in {5, 7} : TimerElection(n)
SpecStart ==
    /\ InitOf({5, 7}, {}) /\ [][NextStart]_vars
    /\ Fair({5, 7}) /\ \A n \in {5, 7} : SF_vars(TimerElection(n))

\* A ring of the nodes of M that has elected leader L: every table holds the
\* nodes of M, every neighbor pair is the one computed from it, a heartbeat has
\* just been handled and no start-up timer is pending.
ElectedRing(M, L) ==
    /\ known = [n \in NodeIds |->
                    IF n \in M THEN [m \in M |-> HelloEntry(m, Epoch)]
                    ELSE (n :> HelloEntry(n, Epoch))]
    /\ neighbor = [n \in NodeIds |->
                    IF n \in M
                    THEN NeighborTuple(known[n], RightId(sorted(M), index(sorted(M), n)))
                    ELSE NoNeighbor]
    /\ left = [n \in NodeIds |->
                    IF n \in M
                    THEN NeighborTuple(known[n], LeftId(sorted(M), index(sorted(M), n)))
                    ELSE NoNeighbor]
    /\ leader_id = [n \in NodeIds |-> IF n \in M THEN L ELSE None]
    /\ last_heartbeat = [n \in NodeIds |-> IF n \in M THEN Epoch ELSE 0]
    /\ timer = [n \in NodeIds |-> n \notin M]
    /\ now = Epoch
    /\ in_election = [n \in NodeIds |-> FALSE]
    /\ last_election_start = [n \in NodeIds |-> 0]
    /\ mpc = [n \in NodeIds |-> "sweep"]
    /\ conn = [c \in Conns |-> FreeConn]
    /\ clients = [n \in NodeIds |-> <<>>]
    /\ acceptor = [n \in NodeIds |-> TRUE]
    /\ stopped = [n \in NodeIds |-> FALSE]
    /\ loops = [n \in NodeIds |-> Loops]
    /\ ring_conn = NoRingConn
    /\ hpc = [n \in NodeIds |-> NoHandler]
    /\ bcast = [c \in Conns |-> NoBcast]
    /\ elect_log = [n \in NodeIds |-> 0]
    /\ received = [n \in NodeIds |-> IF n \in M THEN Epoch ELSE 0]
    /\ last = Idle
Elected(M, L) == ElectedRing(M, L) /\ msgs = EmptyBag

\* SpecCrash: the ring {3, 5, 7} with leader 7, at the moment node 7 is killed;
\* every HELLO arrives while the maintainer of the receiver sleeps
InitCrash ==
    /\ Elected({3, 5, 7}, 7)
    /\ status = [n \in NodeIds |-> IF n \in {3, 5} THEN "up"
                                   ELSE IF n = 7 THEN "down" ELSE "new"]
NextCrash ==
    \/ AdvanceClock(HEARTBEAT_TIMEOUT + 1)
    \/ \E n \in {3, 5}, m \in {3, 5} : HelloAsleep(n, m)
    \/ Engine({3, 5})
    \/ \E n \in {3, 5} : HeartbeatTimeout(n)
SpecCrash ==
    /\ InitCrash /\ [][NextCrash]_vars
    /\ Fair({3, 5}) /\ FairTimeout({3, 5})

\* SpecJoin: the ring {3, 5} with leader 5, at the moment node 9 has started.
\* Nodes 5 and 9 run all their threads; node 3 is their environment: its HELLO
\* datagrams arrive and it accepts the lines written to it. Every HELLO arrives
\* while the maintainer of the receiver sleeps. Node 5 leads and node 9 knows no
\* leader but itself, so no heartbeat times out on either.
InitJoin ==
    /\ Elected({3, 5}, 5)
    /\ status = [n \in NodeIds |-> IF n \in {5, 9} THEN "up"
                                   ELSE IF n = 3 THEN "env" ELSE "new"]
NextJoin ==
    \/ \E n \in {5, 9}, m \in {3, 5, 9} : HelloAsleep(n, m)
    \/ Engine({5, 9})
    \/ TimerElection(9)
SpecJoin ==
    /\ InitJoin /\ [][NextJoin]_vars
    /\ Fair({5, 9}) /\ SF_vars(TimerElection(9))

(* ------------------------------------------------------------------ *)
(* Properties                                                         *)
(* ------------------------------------------------------------------ *)
Min(S) == CHOOSE x \in S : \A y \in S : x <= y
Max(S) == CHOOSE x \in S : \A y \in S : x >= y

\* C1: in a ring whose nodes all run, every node eventually has leader_id equal
\* to the maximum id, and from then on keeps it.
C1_ConvergesToMax == <>[](\A n \in Up : leader_id[n] = Max(Up))

\* the nodes of the ring know each other and are each other's neighbors
RingFormed ==
    \A n \in Up : /\ DOMAIN known[n] = Up
                   /\ neighbor[n] # NoNeighbor /\ neighbor[n][1] # n
                   /\ left[n] # NoNeighbor /\ left[n][1] # n
ElectionInFlight == \E m \in BagToSet(msgs) : m.cmd \in {"ELECTION", "LEADER"}

\* C2: when the ring is formed and no ELECTION or LEADER line is in flight, at
\* most one node has leader_id equal to its own id.
C2_AtMostOneLeader ==
    (RingFormed /\ ~ElectionInFlight)
        => Cardinality({n \in Up : leader_id[n] = n}) <= 1

\* C3: a node that handles an ELECTION line carrying its own id, and so becomes
\* leader, is the node with the maximum id.
C3_OnlyMaxIsElected ==
    (last.op = "on_election" /\ last.arg = last.node) => last.node = Max(Up)

\* C4: after the crash of leader 7 in the ring {3, 5, 7}, eventually nodes 3 and
\* 5 both have leader_id = 5.
C4_SurvivorsElectFive == <>(leader_id[3] = 5 /\ leader_id[5] = 5)

\* C5: after node 9 has joined the ring {3, 5} led by 5, eventually leader_id is
\* 9 on nodes 5 and 9, and stays 9.
C5_JoinElectsNine == <>[](leader_id[5] = 9 /\ leader_id[9] = 9)

\* C6: an admission by a node whose leader_id is not its own id delivers exactly
\* NOT_LEADER\n to the connection, closes it and leaves self.clients unchanged; an
\* admission by a node whose leader_id is its own id delivers WELCOME\n and appends
\* the connection to self.clients.
C6_Admission ==
    last.op = "accept" =>
        LET n == last.node
            c == last.conn
        IN  IF last.leader
            THEN /\ conn[c].inbox = Append(last.before.inbox, <<"WELCOME", "\n">>)
                 /\ clients[n] = Append(last.members, c)
            ELSE /\ conn[c].inbox = <<<<"NOT_LEADER", "\n">>>>
                 /\ conn[c].srv = "closed"
                 /\ clients[n] = last.members

\* the line "[n] m\n" for the line m\n a client wrote
Echo(n, line) == <<"[", ToString(n), "] ">> \o line
Inboxes(f) == [d \in Conns |-> f[d].inbox]

\* C7, as stated: a non-empty line m read by leader n is delivered as one line
\* "[n] m\n" to every connection of self.clients, the sender included; an empty
\* line delivers nothing.
C7_BroadcastToAll ==
    last.op = "read_line" =>
        IF last.line = <<"\n">>
        THEN Inboxes(conn) = Inboxes(last.before)
        ELSE \A d \in Range(last.members) :
                conn[d].inbox = Append(last.before[d].inbox, Echo(last.node, last.line))

\* C7, amended: a non-empty line m read by leader n is delivered as one line
\* "[n] m\n" to every connection of self.clients that is open at both ends, the
\* sender included; a connection of self.clients that the node has closed or the
\* client has reset receives nothing, is closed and leaves self.clients; a
\* connection the client has closed receives nothing; connections outside
\* self.clients receive nothing; an empty line delivers nothing and leaves
\* self.clients unchanged.
C7_BroadcastToLive ==
    last.op = "read_line" =>
        LET n == last.node
            b == last.before
        IN  IF last.line = <<"\n">>
            THEN Inboxes(conn) = Inboxes(b) /\ clients[n] = last.members
            ELSE \A d \in Conns :
                    IF d \notin Range(last.members)
                    THEN conn[d].inbox = b[d].inbox
                    ELSE IF b[d].srv = "open" /\ b[d].cli = "open"
                    THEN /\ conn[d].inbox = Append(b[d].inbox, Echo(n, last.line))
                         /\ d \in Range(clients[n])
                    ELSE /\ conn[d].inbox = b[d].inbox
                         /\ (b[d].srv = "closed" \/ b[d].cli = "rst")
                                => (d \notin Range(clients[n]) /\ conn[d].srv = "closed")
\* a non-empty line is read while self.clients holds two connections open at both
\* ends, and both have received the welcome and the line
C7_Witness ==
    /\ last.op = "read_line" /\ last.line # <<"\n">>
    /\ Len(last.members) = 2
    /\ \A d \in Conns :
            /\ last.before[d].srv = "open" /\ last.before[d].cli = "open"
            /\ conn[d].inbox = <<<<"WELCOME", "\n">>, <<"[", "5", "] ", "hi", "\n">>>>

\* C8: after a recomputation of the ring maintainer of node n, with S the ids in
\* its peer table: right is the smallest id of S greater than n, or the smallest
\* id of S when none is greater; left is the largest id of S smaller than n, or
\* the largest id of S when none is smaller; each neighbor is that id with the
\* host and ring port of its table entry.
C8_NeighborsOfTable ==
    last.op = "recompute" =>
        LET n == last.node
            S == DOMAIN known[n]
            r == IF \E x \in S : x > n THEN Min({x \in S : x > n}) ELSE Min(S)
            l == IF \E x \in S : x < n THEN Max({x \in S : x < n}) ELSE Max(S)
        IN  /\ neighbor[n] = <<r, known[n][r][1], known[n][r][2]>>
            /\ left[n] = <<l, known[n][l][1], known[n][l][2]>>
\* a recomputation over a table of three ids
C8_Witness == last.op = "recompute" /\ Cardinality(DOMAIN known[last.node]) = 3

\* C9: the sweep of node n removes an entry if and only if it is not the entry of
\* n itself and its last_seen is more than 10 s old.
C9_SweepByLastSeen ==
    last.op = "sweep" =>
        LET n == last.node
        IN  \A m \in DOMAIN last.before :
                (m \notin DOMAIN known[n])
                    <=> (m # n /\ now - last.before[m][4] > PEER_STALENESS)

\* C10: an election started by the ring maintainer of a node comes more than 2 s
\* after the previous one the maintainer of that node started, and is not started
\* while in_election is true.
C10_Cooldown ==
    (last.op = "recompute" /\ last.elect) =>
        /\ ~last.was_in_election
        /\ now - last.prev_elect > ELECTION_COOLDOWN
\* a topology change without a leader, less than 2 s after the maintainer started
\* an election, that starts none
C10_Witness ==
    /\ last.op = "recompute" /\ last.wanted /\ ~last.elect
    /\ last.prev_elect # 0 /\ now - last.prev_elect < ELECTION_COOLDOWN
\* the maintainer starts a second election
C10_SecondElection ==
    last.op = "recompute" /\ last.elect /\ last.prev_elect # 0

\* C11: handling HEARTBEAT lid at node n sets leader_id to lid and last_heartbeat
\* to the current time, and changes nothing else of the node: its peer table,
\* its neighbors, in_election, last_election_start and its chat clients stay as
\* they were. The line goes on to the right neighbor exactly when lid is not the
\* id of n. So a second HEARTBEAT lid leaves leader_id = lid.
C11_HeartbeatOnly ==
    [][(last'.op = "on_heartbeat") =>
        LET n == last'.node
            lid == last'.arg
        IN  /\ leader_id' = [leader_id EXCEPT ![n] = lid]
            /\ last_heartbeat' = [last_heartbeat EXCEPT ![n] = now]
            /\ UNCHANGED <<known, neighbor, left, in_election,
                           last_election_start, clients, conn, timer, now>>
            /\ last'.sent = IF lid # n /\ neighbor[n] # NoNeighbor
                            THEN <<At(neighbor[n], 0), "HEARTBEAT", lid>>
                            ELSE <<>>]_vars
\* a node whose leader_id is already lid handles HEARTBEAT lid of another node
\* and passes it on to its right neighbor
C11_Witness ==
    /\ last.op = "on_heartbeat" /\ last.leader_was = last.arg
    /\ last.arg # last.node /\ last.sent # <<>>
    /\ leader_id[last.node] = last.arg

\* C15 (as stated): on every tick of the ring maintainer of node n on which
\* leader_id is unset, the right neighbor is defined, in_election is false and
\* more than 2 s have passed since last_election_start, the node sets
\* in_election, updates last_election_start and sends ELECTION n to its right
\* neighbor, whether or not the neighbors changed on that tick.
C15_ElectsEveryTick ==
    [][(last'.op = "recompute") =>
        LET n == last'.node
            due == /\ leader_id[n] = None /\ neighbor'[n] # NoNeighbor
                   /\ ~in_election[n]
                   /\ now - last_election_start[n] > ELECTION_COOLDOWN
        IN  due => /\ in_election'[n] /\ last_election_start'[n] = now
                   /\ last'.sent = <<At(neighbor'[n], 0), "ELECTION", n>>]_vars
\* C15 (amended): the maintainer of node n starts an election on exactly the
\* ticks on which a neighbor changed and leader_id is unset, the right neighbor
\* is defined, in_election is false and more than 2 s have passed since
\* last_election_start; it then sets in_election, updates last_election_start
\* and sends ELECTION n to the right neighbor. On every other tick, also one
\* that differs only in that no neighbor changed, it starts none.
C15_ElectsOnChange ==
    [][(last'.op = "recompute") =>
        LET n == last'.node
            changed == neighbor'[n] # neighbor[n] \/ left'[n] # left[n]
            due == /\ leader_id[n] = None /\ neighbor'[n] # NoNeighbor
                   /\ ~in_election[n]
                   /\ now - last_election_start[n] > ELECTION_COOLDOWN
        IN  IF changed /\ due
            THEN /\ in_election'[n] /\ last_election_start'[n] = now
                 /\ last'.sent = <<At(neighbor'[n], 0), "ELECTION", n>>
            ELSE /\ UNCHANGED <<in_election, last_election_start, msgs>>
                 /\ last'.sent = <<>>]_vars
\* a tick without a leader, with a right neighbor, in_election false and the
\* cooldown over, on which no neighbor changed and no election started
C15_Witness ==
    /\ last.op = "recompute" /\ ~last.changed /\ ~last.elect
    /\ leader_id[last.node] = None /\ neighbor[last.node] # NoNeighbor
    /\ ~in_election[last.node]
    /\ now - last_election_start[last.node] > ELECTION_COOLDOWN
\* a tick on which a neighbor changed and the maintainer started an election
C15_ElectionOnChange ==
    last.op = "recompute" /\ last.changed /\ last.elect /\ last.sent # <<>>

\* C18: once the reader of an admitted chat client has ended (it saw the end of
\* the stream), the client set of the node no longer holds that connection.
C18_EofRemoves ==
    \A c \in Conns :
        conn[c].reader = "done" => c \notin Range(clients[conn[c].node])

\* C19: single-node ring. A neighbor computation of node n over a peer table
\* that holds only n makes n its own right and left neighbor, and an election
\* it starts puts ELECTION n on the ring port of n. While n is its own right
\* neighbor, handling ELECTION n sets leader_id to n, clears in_election and
\* replaces the line by one LEADER n addressed to n; handling that LEADER n
\* takes the line away and puts none in its place.
C19_SingleNodeRing ==
    [][/\ (last'.op = "recompute" /\ DOMAIN known[last'.node] = {last'.node}) =>
            LET n == last'.node
            IN  /\ neighbor'[n] = <<n, LocalIp, RingPort(n)>>
                /\ left'[n] = <<n, LocalIp, RingPort(n)>>
                /\ msgs' = IF last'.elect
                           THEN msgs (+) SetToBag({Msg(n, "ELECTION", n)})
                           ELSE msgs
       /\ (/\ last'.op = "on_election" /\ last'.arg = last'.node
           /\ neighbor[last'.node] = <<last'.node, LocalIp, RingPort(last'.node)>>) =>
            LET n == last'.node
            IN  /\ leader_id'[n] = n /\ ~in_election'[n]
                /\ msgs' = (msgs (-) SetToBag({Msg(n, "ELECTION", n)}))
                                (+) SetToBag({Msg(n, "LEADER", n)})
       /\ (last'.op = "on_leader" /\ last'.arg = last'.node) =>
            LET n == last'.node
            IN  /\ leader_id'[n] = n /\ ~in_election'[n]
                /\ msgs' = msgs (-) SetToBag({Msg(n, "LEADER", n)})]_vars
\* node 5, alone in its peer table and its own neighbor, has handled its own
\* LEADER line: it is the leader, in_election is false and no line is in flight
C19_Witness ==
    /\ last.op = "on_leader" /\ last.arg = last.node
    /\ DOMAIN known[last.node] = {last.node}
    /\ neighbor[last.node] = <<last.node, LocalIp, RingPort(last.node)>>
    /\ leader_id[last.node] = last.node /\ ~in_election[last.node]
    /\ msgs = EmptyBag

\* SpecLine: node 5 from construction, alone on the network; a TCP client
\* holds one connection to its ring port open and writes lines on it
NextLine ==
    \/ Engine({5})
    \/ TimerElection(5)
    \/ RingConnOpen(5)
    \/ \E line \in RingLines : RingConnWrite(line)
    \/ RingConnRead(5)
SpecLine == InitOf({5}, {}) /\ [][NextLine]_vars

\* C12: a line of a ring connection whose command is not ELECTION, LEADER or
\* HEARTBEAT changes no state of the node and sends no ring line, and the
\* connection stays open with the lines behind it still to be read; an ELECTION
\* line read afterwards on that connection is handled by the election engine:
\* id n makes n the leader and sends LEADER n, a larger id is forwarded, a
\* smaller id is replaced by n.
C12_UnknownIgnored ==
    [][(last'.op = "ring_line") =>
        LET n == last'.node
            line == last'.line
        IN  /\ (line.cmd \notin {"ELECTION", "LEADER", "HEARTBEAT"}) =>
                    /\ UNCHANGED <<known, neighbor, left, leader_id, last_heartbeat,
                                   in_election, last_election_start, clients, msgs>>
                    /\ last'.sent = <<>>
                    /\ ring_conn'.st = "open"
                    /\ ring_conn'.lines = Tail(ring_conn.lines)
            /\ (line.cmd = "ELECTION" /\ line.args # <<>> /\ ring_conn.skipped) =>
                    LET eid == line.args[1]
                    IN  /\ eid = n => leader_id'[n] = n /\ ~in_election'[n]
                        /\ last'.sent =
                               IF neighbor[n] = NoNeighbor THEN <<>>
                               ELSE <<At(neighbor[n], 0),
                                      IF eid = n THEN "LEADER" ELSE "ELECTION",
                                      IF eid > n THEN eid ELSE n>>]_vars
\* ELECTION 7 is handled on a connection on which FOO 1 was read before, and
\* goes on to the right neighbor
C12_Witness ==
    /\ last.op = "ring_line" /\ last.after_skip
    /\ last.line = [cmd |-> "ELECTION", args |-> <<7>>]
    /\ last.sent # <<>> /\ ring_conn.st = "open"

\* SpecDatagram: node 5 from construction; datagrams, well formed or not,
\* arrive on the discovery socket
NextDatagram ==
    \/ \E s \in Datagrams : DiscoveryDatagram(5, s)
    \/ Engine({5})
    \/ TimerElection(5)
SpecDatagram == InitOf({5}, {7}) /\ [][NextDatagram]_vars

\* C13: a datagram with another keyword than HELLO, with fewer than five
\* fields, or with an id or port field that is not an integer leaves the peer
\* table as it was and the discovery listener running.
C13_MalformedDropped ==
    [][(last'.op = "datagram") =>
        LET n == last'.node
            s == last'.data
            wellformed == /\ Len(s) >= 5 /\ s[1].txt = "HELLO"
                          /\ s[2].int /\ s[4].int /\ s[5].int
        IN  (~wellformed) => (known' = known /\ "listener" \in loops'[n])]_vars

\* SpecStop: node 5 from construction, peer 7 not modelled, and stop() called at
\* any moment. Every loop of node 5 keeps running: it is scheduled again and
\* again, a line written to the ring port is handled, and a chat connection in
\* the backlog is accepted. Peers and chat clients send what and when they like.
NextStop ==
    \/ Stop(5)
    \/ \E t \in Loops : LoopExit(5, t)
    \/ DiscoveryHello(5, 7)
    \/ Engine({5})
    \/ TimerElection(5)
    \/ \E c \in Conns : ClientConnect(c, 5) \/ ClientAccept(5, c)
SpecStop ==
    /\ InitOf({5}, {7}) /\ [][NextStop]_vars
    /\ WF_vars(MaintSweep(5)) /\ SF_vars(MaintRecompute(5))
    /\ WF_vars(\E eid \in NodeIds : OnElectionMsg(5, eid))
    /\ WF_vars(\E lid \in NodeIds : OnLeaderMsg(5, lid))
    /\ WF_vars(\E lid \in NodeIds : OnHeartbeat(5, lid))
    /\ SF_vars(HeartbeatEmit(5)) /\ SF_vars(TimerElection(5))
    /\ \A t \in Loops : WF_vars(LoopExit(5, t))
    /\ \A c \in Conns : WF_vars(ClientAccept(5, c))

\* C14: after stop() on node n each of its component loops (discovery sender
\* and listener, ring acceptor, client acceptor, ring maintainer, heartbeat
\* loop) eventually ends, whether or not a datagram or a connection arrives.
C14_StopEndsLoops ==
    stopped[5] ~> (loops[5] = {} /\ ~acceptor[5])

\* SpecToken: the ring {3, 5, 7} with leader 7, at the moment node 7 is killed
\* with its latest heartbeat written to its right neighbor 3 and not yet
\* handled; every HELLO arrives while the maintainer of the receiver sleeps
InitToken ==
    /\ ElectedRing({3, 5, 7}, 7)
    /\ status = [n \in NodeIds |-> IF n \in {3, 5} THEN "up"
                                   ELSE IF n = 7 THEN "down" ELSE "new"]
    /\ msgs = SetToBag({Msg(3, "HEARTBEAT", 7)})
NextToken ==
    \/ AdvanceClock(HEARTBEAT_TIMEOUT + 1)
    \/ \E n \in {3, 5}, m \in {3, 5} : HelloAsleep(n, m)
    \/ Engine({3, 5})
    \/ \E n \in {3, 5} : HeartbeatTimeout(n)
SpecToken ==
    /\ InitToken /\ [][NextToken]_vars
    /\ Fair({3, 5}) /\ FairTimeout({3, 5})

\* C17: a LEADER or HEARTBEAT line of leader 7 does not circulate for ever
\* after node 7 is gone: from some moment on no line that names 7 is in flight.
C17_TokenStops ==
    <>[](\A m \in BagToSet(msgs) : ~(m.cmd \in {"LEADER", "HEARTBEAT"} /\ m.arg = 7))

\* SpecLost: node 5 right after an election of its ring maintainer whose
\* ELECTION 5 line was lost. The table of node 5 held itself and node 7, so 7
\* became its right neighbor and the maintainer started an election; node 7 had
\* been killed, so the connection was refused and the line dropped. The start-up
\* timer has fired before. Nodes 3 and 9 are peers that are not modelled: their
\* HELLO datagrams arrive and they may write ring lines to node 5 or not.
InitLost ==
    /\ now = Epoch
    /\ status = [n \in NodeIds |-> IF n = 5 THEN "up"
                                   ELSE IF n = 7 THEN "down" ELSE "env"]
    /\ known = [n \in NodeIds |->
                    IF n = 5 THEN [m \in {5, 7} |-> HelloEntry(m, Epoch)]
                    ELSE (n :> HelloEntry(n, Epoch))]
    /\ neighbor = [n \in NodeIds |-> IF n = 5 THEN <<7, LocalIp, RingPort(7)>>
                                     ELSE NoNeighbor]
    /\ left = neighbor
    /\ leader_id = [n \in NodeIds |-> None]
    /\ last_heartbeat = [n \in NodeIds |-> 0]
    /\ in_election = [n \in NodeIds |-> n = 5]
    /\ last_election_start = [n \in NodeIds |-> IF n = 5 THEN Epoch ELSE 0]
    /\ mpc = [n \in NodeIds |-> "sweep"]
    /\ timer = [n \in NodeIds |-> n # 5]
    /\ msgs = EmptyBag
    /\ conn = [c \in Conns |-> FreeConn]
    /\ clients = [n \in NodeIds |-> <<>>]
    /\ acceptor = [n \in NodeIds |-> TRUE]
    /\ stopped = [n \in NodeIds |-> FALSE]
    /\ loops = [n \in NodeIds |-> Loops]
    /\ ring_conn = NoRingConn
    /\ hpc = [n \in NodeIds |-> NoHandler]
    /\ bcast = [c \in Conns |-> NoBcast]
    /\ elect_log = [n \in NodeIds |-> IF n = 5 THEN Epoch ELSE 0]
    /\ received = [n \in NodeIds |-> 0]
    /\ last = Idle
NextLost ==
    \/ AdvanceClock(HEARTBEAT_TIMEOUT + 1)
    \/ \E m \in {3, 9} : DiscoveryHello(5, m)
    \/ Engine({5})
    \/ HeartbeatTimeout(5)
    \/ \E cmd \in Cmds : RingInput(5, cmd, 3)
SpecLost ==
    /\ InitLost /\ [][NextLost]_vars
    /\ Fair({5}) /\ FairTimeout({5})
    /\ \A m \in {3, 9} : SF_vars(HelloAsleep(5, m))

\* C16: a node without a leader whose ELECTION line was dropped does not stay
\* for ever with in_election true and leader_id unset: it starts another
\* election or learns a leader.
C16_ElectionRetried ==
    <>(~in_election[5] \/ leader_id[5] # None)
\* the state SpecLost starts in, as node 5 reaches it from construction (in
\* Spec, where the peer takes the line and answers nothing)
C16_LostElection ==
    /\ leader_id[5] = None /\ in_election[5] /\ ~timer[5] /\ msgs = EmptyBag
    /\ neighbor[5] = <<7, LocalIp, RingPort(7)>> /\ left[5] = neighbor[5]
    /\ DOMAIN known[5] = {5, 7} /\ mpc[5] = "sweep"
    /\ last_heartbeat[5] = 0 /\ last_election_start[5] = now

\* SpecRace: node 5 from construction, peer 7 not modelled, with the handlers of
\* LEADER and HEARTBEAT taken statement by statement
NextRace ==
    \/ AdvanceClock(HEARTBEAT_TIMEOUT + 1)
    \/ DiscoveryHello(5, 7)
    \/ MaintSweep(5) \/ MaintRecompute(5)
    \/ TimerElection(5)
    \/ \E eid \in NodeIds : OnElectionMsg(5, eid)
    \/ \E cmd \in Cmds, lid \in NodeIds : ReceiptBegin(5, cmd, lid)
    \/ ReceiptEnd(5)
    \/ HeartbeatEmit(5) \/ HeartbeatTimeout(5)
    \/ \E cmd \in Cmds : RingInput(5, cmd, 7)
SpecRace == InitOf({5}, {7}) /\ [][NextRace]_vars

\* C20: when the heartbeat loop of node n clears leader_id and starts an
\* election, n was not the leader and the latest LEADER or HEARTBEAT line a
\* handler of n took up came more than 6 s ago.
C20_NoTimeoutAfterReceipt ==
    last.op = "heartbeat_timeout" =>
        /\ last.arg # last.node
        /\ now - received[last.node] > HEARTBEAT_TIMEOUT

\* SpecBcast: node 5 on its own, from construction, with its chat clients, and
\* with _broadcast_to_clients taken statement by statement
NextBcast ==
    \/ MaintSweep(5)
    \/ MaintRecompute(5)
    \/ \E arg \in NodeIds : OnElectionMsg(5, arg)
    \/ \E arg \in NodeIds : OnLeaderMsg(5, arg)
    \/ Client
    \/ \E c \in Conns : ClientAccept(5, c)
    \/ \E c \in Conns : BcastSend(5, c)
    \/ \E c \in Conns : BcastTest(5, c)
    \/ \E c \in Conns : BcastRemove(5, c)
    \/ \E c \in Conns : ReaderEOF(5, c)
SpecBcast == InitOf({5}, {}) /\ [][NextBcast]_vars

\* C21, admission: a connection whose WELCOME or NOT_LEADER could not be sent
\* is closed and is not in the client set
C21_AdmissionContained ==
    (last.op = "accept" /\ ~SendOk(last.before)) =>
        /\ last.conn \notin Range(clients[last.node])
        /\ conn[last.conn].srv = "closed"
\* C21, acceptor: the client acceptor of node 5 keeps running
C21_AcceptorSurvives == acceptor[5]
\* C21, readers: no reader thread is ended by an error of a broadcast
C21_ReadersSurvive == \A c \in Conns : conn[c].reader # "crashed"
\* C21: a failed send to a chat client (WELCOME or NOT_LEADER at admission, or
\* a broadcast, also two broadcasts at once that find the same dead client)
\* closes that client and takes it out of the client set, once; the client
\* acceptor keeps accepting and the reader of every other client keeps running.
C21_ErrorContained ==
    /\ C21_AdmissionContained
    /\ C21_AcceptorSurvives
    /\ C21_ReadersSurvive
====
